---- MODULE Spec2Model ----
(***************************************************************************)
(* Model of the build monitor of src/apk_builder.py:                       *)
(* GitHubAPKBuilder.monitor_build with get_workflow_runs,                  *)
(* get_workflow_logs and download_apk.  The remote service (the answers of *)
(* requests.get) and the downloaded archives are the environment: every    *)
(* call draws its answer from a small set.  requests.get either returns a  *)
(* response (status 200 or another status) or raises (a connectivity       *)
(* failure); zipfile raises BadZipFile on a corrupt archive.               *)
(* Spec is monitor_build on its own, SpecRun is run() from its first step  *)
(* through monitor_build, SpecExtract is the archive extraction on its own.*)
(***************************************************************************)
EXTENDS Integers, Sequences, FiniteSets

\* ------------------------------------------------------------------ bounds
MaxRuns == 2        \* longest run list a listRuns answer holds
MaxArtifacts == 2   \* longest artifact list a listArtifacts answer holds
MaxEntries == 2     \* most entries in a downloaded archive

\* ------------------------------------------------------- program constants
max_attempts == 60

\* the argument of time.sleep, in seconds
sleep_seconds == 10

ArtifactName == "app-debug"

\* ------------------------------------------------------------- environment
SeqsUpTo(S, n) == UNION {[1..k -> S] : k \in 0..n}

\* status/conclusion pairs of a run as the service reports them
RunKinds ==
  { [status |-> "queued", conclusion |-> "null"],
    [status |-> "in_progress", conclusion |-> "null"],
    [status |-> "completed", conclusion |-> "success"],
    [status |-> "completed", conclusion |-> "failure"],
    [status |-> "completed", conclusion |-> "cancelled"] }

\* a run list, most recent first: the run at position 1 carries the highest id
MkRuns(ks) ==
  [i \in 1..Len(ks) |->
     [id |-> Len(ks) - i + 1, status |-> ks[i].status, conclusion |-> ks[i].conclusion]]

RunLists == {MkRuns(ks) : ks \in SeqsUpTo(RunKinds, MaxRuns)}

\* what requests.get(.../actions/runs) can do
ListRunsResponses ==
  {[kind |-> "ok", runs |-> rs] : rs \in RunLists}
    \cup {[kind |-> "non2xx", runs |-> <<>>], [kind |-> "raise", runs |-> <<>>]}

ArtifactNames == {"app-debug", "lint-report"}

ListArtifactsResponses ==
  {[kind |-> "ok", artifacts |-> as] : as \in SeqsUpTo(ArtifactNames, MaxArtifacts)}
    \cup {[kind |-> "non2xx", artifacts |-> <<>>], [kind |-> "raise", artifacts |-> <<>>]}

\* a file name is <<stem, extension>>: <<"app-debug", ".apk">> is app-debug.apk
EntryNames == {<<"app-debug", ".apk">>, <<"build", ".txt">>}

\* A downloaded archive: its entries in order; bad = 0 for a well-formed archive,
\* bad = k when entry k fails its CRC check, bad = -1 when the bytes are no zip
\* file at all.
Archives ==
  {[entries |-> es, bad |-> b] : es \in SeqsUpTo(EntryNames, MaxEntries), b \in {0}}
    \cup UNION {{[entries |-> es, bad |-> b] : b \in 1..Len(es)} :
                  es \in SeqsUpTo(EntryNames, MaxEntries)}
    \cup {[entries |-> <<>>, bad |-> -1]}

NoArchive == [entries |-> <<>>, bad |-> 0]

ArchiveResponses ==
  {[kind |-> "ok", archive |-> a] : a \in Archives}
    \cup {[kind |-> "non2xx", archive |-> NoArchive], [kind |-> "raise", archive |-> NoArchive]}

\* str.endswith on a file name
EndsWith(name, suffix) == name[2] = suffix

\* ------------------------------------------------------------------- state
VARIABLES
  pc,                 \* position in monitor_build
  attempt,            \* monitor_build's attempt counter
  result,             \* monitor_build's return value: "none", "True", "False"
  exit,               \* the return statement taken: "none", "success", "failed", "timeout"
  exc,                \* the exception that left monitor_build, or "none"
  runs,               \* the run list of the current poll cycle
  lastKind,           \* how the last listRuns call ended: "none", "ok", "non2xx", "raise"
  emptyOnly,          \* every listRuns call so far answered 200 with an empty list
  emptyBefore,        \* emptyOnly as it was before the last listRuns call
  firstCompletedAt,   \* number of the first listRuns answer whose position-0 run is
                      \* completed, 0 while there was none
  status,             \* latest_run['status'] of the last non-empty poll
  conclusion,         \* latest_run['conclusion'] of the last non-empty poll
  run_id,             \* latest_run['id'] of the last non-empty poll
  nListRuns,          \* calls of GET .../actions/runs
  nSleep,             \* calls of time.sleep
  nFetchLogs,         \* calls of GET .../runs/{id}/logs
  logsRunId,          \* the run id the logs were asked for
  nListArtifacts,     \* calls of GET .../runs/{id}/artifacts
  nDownloadArtifact,  \* calls of GET archive_download_url
  artKind,            \* how the listArtifacts call ended
  artifacts,          \* the artifact list of the listArtifacts answer
  apk_artifact,       \* index of the selected artifact, 0 for None
  dlKind,             \* how the archive download (artifact or logs) ended
  archive,            \* the content written to the temporary .zip file
  tempFiles,          \* temporary .zip files that exist on disk
  tempCreated,        \* temporary .zip files created so far
  files,              \* files under the working directory '.'
  filesBefore,        \* files under '.' when download_apk was entered
  printedLogs,        \* names of the log entries printed
  apk_path,           \* the APK path download_apk reported, or "none"
  dlResult,           \* download_apk's return value: "none", "True", "False"
  steps,              \* the steps of run() entered so far, in order
  hasGit,             \* os.path.exists('.git')
  committed,          \* git commit succeeded in this run()
  pushed,             \* git push succeeded in this run()
  failedStep,         \* the step of run() that returned failure or raised, or "none"
  treeOnce            \* the extractor's file tree after one extraction

vars ==
  << pc, attempt, result, exit, exc, runs, lastKind, emptyOnly, emptyBefore,
     firstCompletedAt, status, conclusion, run_id, nListRuns, nSleep, nFetchLogs, logsRunId, nListArtifacts,
     nDownloadArtifact, artKind, artifacts, apk_artifact, dlKind, archive, tempFiles,
     tempCreated, files, filesBefore, printedLogs, apk_path, dlResult, steps, hasGit,
     committed, pushed, failedStep, treeOnce >>

\* the state of run() outside monitor_build, and of the extractor on its own
runVars == << steps, hasGit, committed, pushed, failedStep, treeOnce >>

monitorVars ==
  << attempt, runs, lastKind, emptyOnly, emptyBefore, firstCompletedAt, status,
     conclusion, run_id, nListRuns, nSleep >>

logVars == << nFetchLogs, logsRunId, printedLogs >>

artifactVars ==
  << nListArtifacts, nDownloadArtifact, artKind, artifacts, apk_artifact, files,
     filesBefore, apk_path, dlResult >>

archiveVars == << dlKind, archive, tempFiles, tempCreated >>

\* the working directory before the tool runs: an Android project, which may
\* already hold a locally built APK
InitialFiles == {{}, {<<"old", ".apk">>}}

\* the locals and counters of monitor_build before its first cycle
MonitorInit ==
  /\ attempt = 0
  /\ result = "none"
  /\ exit = "none"
  /\ exc = "none"
  /\ runs = <<>>
  /\ lastKind = "none"
  /\ emptyOnly = TRUE
  /\ emptyBefore = TRUE
  /\ firstCompletedAt = 0
  /\ status = "none"
  /\ conclusion = "none"
  /\ run_id = 0
  /\ nListRuns = 0
  /\ nSleep = 0
  /\ nFetchLogs = 0
  /\ logsRunId = 0
  /\ nListArtifacts = 0
  /\ nDownloadArtifact = 0
  /\ artKind = "none"
  /\ artifacts = <<>>
  /\ apk_artifact = 0
  /\ dlKind = "none"
  /\ tempFiles = 0
  /\ tempCreated = 0
  /\ printedLogs = {}
  /\ apk_path = "none"
  /\ dlResult = "none"

\* monitor_build is entered
Init ==
  /\ pc = "poll"
  /\ MonitorInit
  /\ archive = NoArchive
  /\ files \in InitialFiles
  /\ filesBefore = files
  /\ steps = <<"monitor_build">>
  /\ hasGit = TRUE
  /\ committed = FALSE
  /\ pushed = FALSE
  /\ failedStep = "none"
  /\ treeOnce = {}

\* ----------------------------------------------------------- pure helpers
\* get_workflow_runs: the run list of a 200 answer, [] for any other status
get_workflow_runs(resp) == IF resp.kind = "ok" THEN resp.runs ELSE <<>>

\* mutant: the loop runs once more (<= for <)
LoopCondOffByOne(a) == a <= max_attempts

\* the while condition of monitor_build
LoopCond(a) == a < max_attempts

\* mutant: the oldest run of the list is taken for the latest
latest_run_oldest(rs) == rs[Len(rs)]

\* mutant: the counter is advanced by two
NextAttemptByTwo(a) == a + 2

\* attempt += 1
NextAttempt(a) == a + 1

\* mutant: no delay follows the last cycle
SleptAfterNotLast(n, a) == IF a = max_attempts - 1 THEN n ELSE n + 1

\* time.sleep(10) at the end of cycle a + 1: the number of delays taken
SleptAfter(n, a) == n + 1

\* latest_run = runs[0]
latest_run(rs) == rs[1]

\* mutant: the two branches of the conclusion test are swapped
BranchSwapped(st, concl) ==
  IF st = "completed"
    THEN IF concl = "success" THEN "fetchLogs" ELSE "listArtifacts"
    ELSE "sleep"

\* mutant: a completed run that did not succeed is polled again
BranchIgnoresFailure(st, concl) ==
  IF st = "completed" /\ concl = "success" THEN "listArtifacts" ELSE "sleep"

\* where a poll cycle goes once status and conclusion are read
Branch(st, concl) ==
  IF st = "completed"
    THEN IF concl = "success" THEN "listArtifacts" ELSE "fetchLogs"
    ELSE "sleep"

\* mutant: an empty run list is taken for a failed build
BranchEmptyAsFailure == "fetchLogs"

\* where a poll cycle goes on an empty run list
BranchEmpty == "sleep"

\* monitor_build's return value once download_apk has returned dl
ReturnAfterDownload(dl) == "True"

\* monitor_build's return value once get_workflow_logs has returned
ReturnAfterLogs == "False"

\* the first artifact named 'app-debug': its index, 0 for None
RECURSIVE FindFrom(_, _)
FindFrom(as, i) ==
  IF i > Len(as) THEN 0
  ELSE IF as[i] = ArtifactName THEN i
  ELSE FindFrom(as, i + 1)

\* mutant: the first artifact is taken whatever its name
FindArtifactAnyName(as) == IF Len(as) > 0 THEN 1 ELSE 0

FindArtifact(as) == FindFrom(as, 1)

\* mutant: any answer of the logs request is taken for the archive
LogsStatusOkAlways(kind) == TRUE

\* get_workflow_logs: response.status_code == 200
LogsStatusOk(kind) == kind = "ok"

\* zipfile.ZipFile(path): fails on bytes that are no zip file
OpensAsZip(a) == a.bad # -1

\* zip_file.extractall('.') writes the entries in order, straight into the
\* destination, and stops with BadZipFile at the entry whose CRC check fails;
\* that entry's file has been written by then
ExtractedEntries(a) ==
  {a.entries[i] : i \in {j \in 1..Len(a.entries) : a.bad = 0 \/ j <= a.bad}}

\* mutant: an entry whose file exists already is written beside it as a copy
ExtractAllKeepsBoth(fs, a) ==
  fs \cup {IF e \in fs THEN <<"copy", e[2]>> ELSE e : e \in ExtractedEntries(a)}

ExtractAll(fs, a) == fs \cup ExtractedEntries(a)

ExtractRaises(a) == a.bad > 0

\* the files os.walk('.') can meet first with the suffix '.apk'
ApkCandidates(fs) == {f \in fs : EndsWith(f, ".apk")}

\* mutant: the unlink follows the try block instead of sitting in a finally
TempAfterTryNoFinally(n, how) == IF how = "raise" THEN n ELSE n - 1

\* the finally clauses: os.unlink(temp_file_path) on every way out of the try
TempAfterTry(n, how) == n - 1

\* the .txt entries get_workflow_logs reads, in order, up to a failing one
LogEntries(a) == {i \in 1..Len(a.entries) : EndsWith(a.entries[i], ".txt")}

LogsRaise(a) == a.bad > 0 /\ a.bad \in LogEntries(a)

PrintedLogs(a) ==
  {a.entries[i] : i \in {j \in LogEntries(a) : ~LogsRaise(a) \/ j < a.bad}}

\* ----------------------------------------------------------------- actions
\* One poll cycle up to its decision: lines 479-499.
Poll ==
  /\ pc = "poll"
  /\ UNCHANGED runVars
  /\ LoopCond(attempt)
  /\ \E resp \in ListRunsResponses :
       /\ nListRuns' = nListRuns + 1
       /\ lastKind' = resp.kind
       /\ emptyOnly' = (emptyOnly /\ resp.kind = "ok" /\ resp.runs = <<>>)
       /\ emptyBefore' = emptyOnly
       /\ firstCompletedAt' =
            IF firstCompletedAt = 0 /\ resp.kind = "ok" /\ resp.runs # <<>>
                 /\ resp.runs[1].status = "completed"
              THEN nListRuns + 1
              ELSE firstCompletedAt
       /\ IF resp.kind = "raise"
            THEN /\ pc' = "raised"
                 /\ exc' = "ConnectionError"
                 /\ UNCHANGED << runs, status, conclusion, run_id >>
            ELSE /\ runs' = get_workflow_runs(resp)
                 /\ exc' = exc
                 /\ IF runs' # <<>>
                      THEN /\ status' = latest_run(runs').status
                           /\ conclusion' = latest_run(runs').conclusion
                           /\ run_id' = latest_run(runs').id
                           /\ pc' = Branch(status', conclusion')
                      ELSE /\ UNCHANGED << status, conclusion, run_id >>
                           /\ pc' = BranchEmpty
  /\ UNCHANGED << attempt, nSleep, result, exit >>
  /\ UNCHANGED << logVars, artifactVars, archiveVars >>

\* time.sleep(10); attempt += 1: lines 501-502.
Sleep ==
  /\ pc = "sleep"
  /\ UNCHANGED runVars
  /\ nSleep' = SleptAfter(nSleep, attempt)
  /\ attempt' = NextAttempt(attempt)
  /\ pc' = "poll"
  /\ UNCHANGED << result, exit, exc, runs, lastKind, emptyOnly, emptyBefore,
                  firstCompletedAt, status, conclusion, run_id, nListRuns >>
  /\ UNCHANGED << logVars, artifactVars, archiveVars >>

\* The loop ends without a completed run: lines 504-505.
Timeout ==
  /\ pc = "poll"
  /\ UNCHANGED runVars
  /\ ~LoopCond(attempt)
  /\ pc' = "done"
  /\ result' = "False"
  /\ exit' = "timeout"
  /\ UNCHANGED << exc, monitorVars, logVars, artifactVars, archiveVars >>

\* download_apk up to the selection of the artifact: lines 424-441.
ListArtifacts ==
  /\ pc = "listArtifacts"
  /\ UNCHANGED runVars
  /\ nListArtifacts' = nListArtifacts + 1
  /\ filesBefore' = files
  /\ \E resp \in ListArtifactsResponses :
       /\ artKind' = resp.kind
       /\ artifacts' = resp.artifacts
       /\ apk_artifact' = IF resp.kind = "ok" THEN FindArtifact(resp.artifacts) ELSE 0
       /\ IF resp.kind = "raise"
            THEN /\ pc' = "raised"
                 /\ exc' = "ConnectionError"
                 /\ UNCHANGED << dlResult, result, exit >>
            ELSE IF resp.kind = "non2xx" \/ apk_artifact' = 0
              THEN /\ dlResult' = "False"
                   /\ result' = ReturnAfterDownload(dlResult')
                   /\ exit' = "success"
                   /\ pc' = "done"
                   /\ exc' = exc
              ELSE /\ pc' = "downloadArtifact"
                   /\ UNCHANGED << dlResult, result, exit, exc >>
  /\ UNCHANGED << nDownloadArtifact, files, apk_path >>
  /\ UNCHANGED << monitorVars, logVars, archiveVars >>

\* download_apk: the GET of archive_download_url and the temporary file,
\* lines 444-451 and 467-470.
DownloadArtifact ==
  /\ pc = "downloadArtifact"
  /\ UNCHANGED runVars
  /\ nDownloadArtifact' = nDownloadArtifact + 1
  /\ \E resp \in ArchiveResponses :
       /\ dlKind' = resp.kind
       /\ IF resp.kind = "raise"
            THEN /\ pc' = "raised"
                 /\ exc' = "ConnectionError"
                 /\ UNCHANGED << archive, tempFiles, tempCreated, dlResult, result, exit >>
            ELSE IF resp.kind = "non2xx"
              THEN /\ dlResult' = "False"
                   /\ result' = ReturnAfterDownload(dlResult')
                   /\ exit' = "success"
                   /\ pc' = "done"
                   /\ UNCHANGED << archive, tempFiles, tempCreated, exc >>
              ELSE /\ archive' = resp.archive
                   /\ tempFiles' = tempFiles + 1
                   /\ tempCreated' = tempCreated + 1
                   /\ pc' = "extract"
                   /\ UNCHANGED << dlResult, result, exit, exc >>
  /\ UNCHANGED << nListArtifacts, artKind, artifacts, apk_artifact, files, filesBefore,
                  apk_path >>
  /\ UNCHANGED << monitorVars, logVars >>

\* download_apk: the try/finally of lines 453-466, then line 470.
ExtractApk ==
  /\ pc = "extract"
  /\ UNCHANGED runVars
  /\ IF ~OpensAsZip(archive)
       THEN /\ pc' = "raised"
            /\ exc' = "BadZipFile"
            /\ tempFiles' = TempAfterTry(tempFiles, "raise")
            /\ UNCHANGED << files, apk_path, dlResult, result, exit >>
       ELSE /\ files' = ExtractAll(files, archive)
            /\ IF ExtractRaises(archive)
                 THEN /\ pc' = "raised"
                      /\ exc' = "BadZipFile"
                      /\ tempFiles' = TempAfterTry(tempFiles, "raise")
                      /\ UNCHANGED << apk_path, dlResult, result, exit >>
                 ELSE /\ \/ /\ ApkCandidates(files') # {}
                            /\ \E f \in ApkCandidates(files') : apk_path' = f
                            /\ dlResult' = "True"
                            /\ tempFiles' = TempAfterTry(tempFiles, "return")
                         \/ /\ ApkCandidates(files') = {}
                            /\ apk_path' = apk_path
                            /\ dlResult' = "False"
                            /\ tempFiles' = TempAfterTry(tempFiles, "fall")
                      /\ result' = ReturnAfterDownload(dlResult')
                      /\ exit' = "success"
                      /\ pc' = "done"
                      /\ exc' = exc
  /\ UNCHANGED << nListArtifacts, nDownloadArtifact, artKind, artifacts, apk_artifact,
                  filesBefore, dlKind, archive, tempCreated >>
  /\ UNCHANGED << monitorVars, logVars >>

\* get_workflow_logs: the GET of the logs and the temporary file,
\* lines 398-405 and 418-419.
FetchLogs ==
  /\ pc = "fetchLogs"
  /\ UNCHANGED runVars
  /\ nFetchLogs' = nFetchLogs + 1
  /\ logsRunId' = run_id
  /\ \E resp \in ArchiveResponses :
       /\ dlKind' = resp.kind
       /\ IF resp.kind = "raise"
            THEN /\ pc' = "raised"
                 /\ exc' = "ConnectionError"
                 /\ UNCHANGED << archive, tempFiles, tempCreated, result, exit >>
            ELSE IF ~LogsStatusOk(resp.kind)
              THEN /\ result' = ReturnAfterLogs
                   /\ exit' = "failed"
                   /\ pc' = "done"
                   /\ UNCHANGED << archive, tempFiles, tempCreated, exc >>
              ELSE /\ archive' = resp.archive
                   /\ tempFiles' = tempFiles + 1
                   /\ tempCreated' = tempCreated + 1
                   /\ pc' = "readLogs"
                   /\ UNCHANGED << result, exit, exc >>
  /\ UNCHANGED << printedLogs >>
  /\ UNCHANGED << monitorVars, artifactVars >>

\* get_workflow_logs: the try/finally of lines 407-417.
ReadLogs ==
  /\ pc = "readLogs"
  /\ UNCHANGED runVars
  /\ IF ~OpensAsZip(archive)
       THEN /\ pc' = "raised"
            /\ exc' = "BadZipFile"
            /\ tempFiles' = TempAfterTry(tempFiles, "raise")
            /\ UNCHANGED << printedLogs, result, exit >>
       ELSE /\ printedLogs' = PrintedLogs(archive)
            /\ IF LogsRaise(archive)
                 THEN /\ pc' = "raised"
                      /\ exc' = "BadZipFile"
                      /\ tempFiles' = TempAfterTry(tempFiles, "raise")
                      /\ UNCHANGED << result, exit >>
                 ELSE /\ tempFiles' = TempAfterTry(tempFiles, "fall")
                      /\ result' = ReturnAfterLogs
                      /\ exit' = "failed"
                      /\ pc' = "done"
                      /\ exc' = exc
  /\ UNCHANGED << nFetchLogs, logsRunId, dlKind, archive, tempCreated >>
  /\ UNCHANGED << monitorVars, artifactVars >>

Next ==
  \/ Poll
  \/ Sleep
  \/ Timeout
  \/ ListArtifacts
  \/ DownloadArtifact
  \/ ExtractApk
  \/ FetchLogs
  \/ ReadLogs

Spec == Init /\ [][Next]_vars

\* ------------------------------------------- the archive extractor alone
\* The extraction of download_apk (ZipFile(path).extractall(dest)) applied to
\* one archive twice in a row, from any destination tree.
Destinations == SUBSET (EntryNames \cup {<<"old", ".apk">>})

InitExtract ==
  /\ pc = "extractor"
  /\ MonitorInit
  /\ archive \in Archives
  /\ files \in Destinations
  /\ filesBefore = files
  /\ steps = <<>>
  /\ hasGit = TRUE
  /\ committed = FALSE
  /\ pushed = FALSE
  /\ failedStep = "none"
  /\ treeOnce = {}

extractorFrame ==
  << attempt, result, exit, runs, lastKind, emptyOnly, emptyBefore, firstCompletedAt,
     status, conclusion, run_id, nListRuns, nSleep, nFetchLogs, logsRunId,
     nListArtifacts, nDownloadArtifact, artKind, artifacts, apk_artifact, dlKind,
     archive, tempFiles, tempCreated, filesBefore, printedLogs, apk_path, dlResult,
     steps, hasGit, committed, pushed, failedStep >>

\* the first extraction: lines 454-455
ExtractOnce ==
  /\ pc = "extractor"
  /\ IF ~OpensAsZip(archive)
       THEN /\ pc' = "raised"
            /\ exc' = "BadZipFile"
            /\ UNCHANGED << files, treeOnce >>
       ELSE /\ files' = ExtractAll(files, archive)
            /\ treeOnce' = files'
            /\ IF ExtractRaises(archive)
                 THEN pc' = "raised" /\ exc' = "BadZipFile"
                 ELSE pc' = "extractedOnce" /\ exc' = exc
  /\ UNCHANGED extractorFrame

\* the same archive extracted again over the result: lines 454-455
ExtractAgain ==
  /\ pc = "extractedOnce"
  /\ files' = ExtractAll(files, archive)
  /\ pc' = "extractedTwice"
  /\ UNCHANGED << exc, treeOnce >>
  /\ UNCHANGED extractorFrame

NextExtract ==
  \/ ExtractOnce
  \/ ExtractAgain

SpecExtract == InitExtract /\ [][NextExtract]_vars

\* ------------------------------------------------------------------ run()
\* run() from its first step; monitor_build is entered when commit_and_push
\* has returned True.  run() is followed from a project directory that holds
\* no built APK; what a pre-existing APK does to download_apk is part of Spec.
InitRun ==
  /\ pc = "setup_credentials"
  /\ MonitorInit
  /\ archive = NoArchive
  /\ files = {}
  /\ filesBefore = files
  /\ steps = <<>>
  /\ hasGit \in BOOLEAN
  /\ committed = FALSE
  /\ pushed = FALSE
  /\ failedStep = "none"
  /\ treeOnce = {}

\* what the steps before monitor_build leave alone
runFrame ==
  << result, exit, monitorVars, logVars, archiveVars, nListArtifacts,
     nDownloadArtifact, artKind, artifacts, apk_artifact, filesBefore, apk_path,
     dlResult, treeOnce >>

Entered(step) == \E i \in 1..Len(steps) : steps[i] = step

\* how a step that talks to the GitHub API can end
ApiOutcomes == {"ok", "fail", "raise"}

\* how commit_and_push can end
GitOutcomes ==
  {"add_failed", "no_changes", "commit_failed", "remote_failed", "push_failed", "pushed"}

\* commit_and_push's return value: True at lines 334 and 378, False elsewhere
CommitAndPushReturns(out) == out \in {"no_changes", "pushed"}

\* mutant: run() goes on whatever commit_and_push returned
RunContinuesAlways(ret) == TRUE

\* run()'s test of a step's return value: if not step(): return
RunContinues(ret) == ret

\* the files create_workflow_file writes
WorkflowFiles == {<<"build", ".yml">>, <<".gitignore", "">>}

\* setup_credentials and its test in run(): lines 37-96, 512-513
SetupCredentials ==
  /\ pc = "setup_credentials"
  /\ steps' = Append(steps, "setup_credentials")
  /\ \E out \in ApiOutcomes :
       /\ pc' = CASE out = "ok" -> "check_project"
                  [] out = "fail" -> "returned"
                  [] OTHER -> "raised"
       /\ exc' = IF out = "raise" THEN "ConnectionError" ELSE exc
       /\ failedStep' = IF out = "ok" THEN failedStep ELSE "setup_credentials"
  /\ UNCHANGED << files, hasGit, committed, pushed >>
  /\ UNCHANGED runFrame

\* the Android project test: lines 520-523
CheckProject ==
  /\ pc = "check_project"
  /\ \E isAndroid \in BOOLEAN, answerYes \in BOOLEAN :
       pc' = IF isAndroid \/ answerYes THEN "check_git_repo" ELSE "returned"
  /\ UNCHANGED << exc, files, steps, hasGit, committed, pushed, failedStep >>
  /\ UNCHANGED runFrame

\* check_git_repo and init_git_repo: lines 98-113, 526-528
InitGitRepo ==
  /\ pc = "check_git_repo"
  /\ IF hasGit
       THEN /\ pc' = "create_github_repo"
            /\ UNCHANGED << steps, hasGit, failedStep >>
       ELSE /\ steps' = Append(steps, "init_git_repo")
            /\ \E ok \in BOOLEAN :
                 IF ok
                   THEN /\ pc' = "create_github_repo"
                        /\ hasGit' = TRUE
                        /\ failedStep' = failedStep
                   ELSE /\ pc' = "returned"
                        /\ hasGit' \in BOOLEAN
                        /\ failedStep' = "init_git_repo"
  /\ UNCHANGED << exc, files, committed, pushed >>
  /\ UNCHANGED runFrame

\* create_github_repo and its test in run(): lines 115-156, 531-532
CreateGithubRepo ==
  /\ pc = "create_github_repo"
  /\ steps' = Append(steps, "create_github_repo")
  /\ \E out \in ApiOutcomes :
       /\ pc' = CASE out = "ok" -> "create_workflow_file"
                  [] out = "fail" -> "returned"
                  [] OTHER -> "raised"
       /\ exc' = IF out = "raise" THEN "ConnectionError" ELSE exc
       /\ failedStep' = IF out = "ok" THEN failedStep ELSE "create_github_repo"
  /\ UNCHANGED << files, hasGit, committed, pushed >>
  /\ UNCHANGED runFrame

\* create_workflow_file: lines 158-283, 535
CreateWorkflowFile ==
  /\ pc = "create_workflow_file"
  /\ steps' = Append(steps, "create_workflow_file")
  /\ files' = files \cup WorkflowFiles
  /\ pc' = "commit_and_push"
  /\ UNCHANGED << exc, hasGit, committed, pushed, failedStep >>
  /\ UNCHANGED runFrame

\* commit_and_push and its test in run(): lines 319-385, 538-542.  After git
\* add, git status --porcelain can be empty only in a repository that existed
\* before this run(): a repository made by init_git_repo has the workflow file
\* staged.
CommitAndPush ==
  /\ pc = "commit_and_push"
  /\ \E out \in GitOutcomes :
       /\ out = "no_changes" => ~Entered("init_git_repo")
       /\ committed' = (out \in {"remote_failed", "push_failed", "pushed"})
       /\ pushed' = (out = "pushed")
       /\ failedStep' = IF CommitAndPushReturns(out) THEN failedStep ELSE "commit_and_push"
       /\ IF RunContinues(CommitAndPushReturns(out))
            THEN /\ pc' = "poll"
                 /\ steps' = steps \o <<"commit_and_push", "monitor_build">>
            ELSE /\ pc' = "returned"
                 /\ steps' = Append(steps, "commit_and_push")
  /\ UNCHANGED << exc, files, hasGit >>
  /\ UNCHANGED runFrame

NextRun ==
  \/ SetupCredentials
  \/ CheckProject
  \/ InitGitRepo
  \/ CreateGithubRepo
  \/ CreateWorkflowFile
  \/ CommitAndPush
  \/ Poll
  \/ Sleep
  \/ Timeout
  \/ ListArtifacts
  \/ DownloadArtifact
  \/ ExtractApk
  \/ FetchLogs
  \/ ReadLogs

SpecRun == InitRun /\ [][NextRun]_vars

\* ------------------------------------------------- states of the monitor
Terminated == pc \in {"done", "raised"}

Polling == pc \in {"poll", "sleep"}

Succeeded == pc = "done" /\ exit = "success"

Failed == pc = "done" /\ exit = "failed"

TimedOut == pc = "done" /\ exit = "timeout"

\* the first completed position-0 run the monitor met concluded with success
FirstCompletedSucceeded == status = "completed" /\ conclusion = "success"

\* the first completed position-0 run the monitor met concluded otherwise
FirstCompletedFailed == status = "completed" /\ conclusion # "success"

\* ------------------------------------------------------------------ claims

C2_AsStated ==
  (FirstCompletedFailed /\ Terminated) =>
    /\ result = "False"
    /\ nFetchLogs = 1
    /\ logsRunId = run_id
    /\ nListArtifacts = 0
    /\ nDownloadArtifact = 0

\* C3: when 60 poll cycles have passed without a completed position-0 run,
\* exactly 60 listRuns calls were made, no fetchLogs, listArtifacts or
\* downloadArtifact call was or is ever made, and the monitor's only step left
\* is to return False through the timeout exit; that exit is taken in no other
\* situation.
C3_Timeout ==
  /\ attempt = max_attempts =>
       /\ nListRuns = max_attempts
       /\ nFetchLogs = 0
       /\ nListArtifacts = 0
       /\ nDownloadArtifact = 0
       /\ tempCreated = 0
       /\ pc \in {"poll", "done"}
       /\ pc = "done" => (result = "False" /\ exit = "timeout")
  /\ exit = "timeout" => (attempt = max_attempts /\ pc = "done")

\* C3 witness: the monitor timed out.
C3_Witness == TimedOut /\ result = "False" /\ nListRuns = max_attempts

\* C4 as stated: no exception leaves monitor_build.
C4_AsStated == pc # "raised" /\ exc = "none"

\* C5 as stated: when the build succeeded and artifact retrieval failed, the
\* value monitor_build returns differs from the one it returns for a failed
\* build and from the one it returns for a build whose APK was retrieved.
C5_AsStated ==
  (pc = "done" /\ FirstCompletedSucceeded /\ dlResult = "False") =>
    /\ result # ReturnAfterLogs
    /\ result # ReturnAfterDownload("True")

\* C6: the status, conclusion and id the monitor reads are those of the run at
\* position 0, the newest of the list; log or artifact calls and the Succeeded
\* and Failed exits happen only when that run is completed, never on account
\* of an older run of the list.
C6_LatestOnly ==
  /\ runs # <<>> =>
       /\ status = runs[1].status
       /\ conclusion = runs[1].conclusion
       /\ run_id = runs[1].id
       /\ \A i \in 1..Len(runs) : runs[i].id <= run_id
       /\ nFetchLogs > 0 => logsRunId = runs[1].id
  /\ (nListArtifacts + nFetchLogs > 0 \/ Succeeded \/ Failed
        \/ pc \in {"listArtifacts", "fetchLogs"}) =>
       /\ runs # <<>>
       /\ runs[1].status = "completed"
       /\ (Succeeded \/ nListArtifacts > 0) => runs[1].conclusion = "success"
       /\ (Failed \/ nFetchLogs > 0) => runs[1].conclusion # "success"

\* C6 witness: the newest run is in progress, an older one is completed, and
\* the monitor goes on polling.
C6_Witness ==
  /\ Len(runs) = 2
  /\ runs[1].status = "in_progress"
  /\ runs[2].status = "completed"
  /\ pc = "sleep"
  /\ nListArtifacts + nFetchLogs = 0

\* C7: as long as every listRuns call answered with an empty list, the monitor
\* is in Polling (before the attempt ceiling), has made no artifact or log
\* call, has returned nothing and has raised nothing; a completed/success run
\* that follows k empty answers is acted on in cycle k+1.
C7_EmptyStaysPolling ==
  /\ (emptyOnly /\ attempt < max_attempts) =>
       /\ Polling
       /\ result = "none"
       /\ exc = "none"
       /\ nFetchLogs + nListArtifacts + nDownloadArtifact = 0
       /\ nListRuns = attempt + (IF pc = "sleep" THEN 1 ELSE 0)
  /\ (emptyBefore /\ ~emptyOnly /\ pc = "listArtifacts") =>
       /\ nListRuns = attempt + 1
       /\ nSleep = attempt
       /\ nListArtifacts = 0

\* C7 witness: two empty answers, then a completed/success run in cycle 3.
C7_Witness ==
  /\ emptyBefore
  /\ ~emptyOnly
  /\ pc = "listArtifacts"
  /\ attempt = 2
  /\ nListRuns = 3

\* C8 as stated: after a listRuns call that ended in a non-2xx answer or in a
\* connectivity failure the monitor is still in Polling (or, after the last
\* cycle, timed out) and has made exactly one listRuns call in that cycle.
C8_AsStated ==
  lastKind \in {"non2xx", "raise"} =>
    \/ pc = "sleep" /\ nListRuns = attempt + 1
    \/ pc = "poll" /\ nListRuns = attempt
    \/ TimedOut

\* C9 as stated: after a failed extraction of the downloaded artifact archive
\* the files under the destination are those that were there before.
C9_AsStated ==
  (pc = "raised" /\ exc = "BadZipFile" /\ nDownloadArtifact = 1) =>
    files = filesBefore

\* C10: a temporary .zip file exists only between its creation and the end of
\* the try block that reads it; once monitor_build has ended, by a return or
\* by an exception, none exists.
C10_TempDeleted ==
  /\ tempFiles \in 0..1
  /\ tempFiles = 1 <=> pc \in {"extract", "readLogs"}
  /\ Terminated => tempFiles = 0
  /\ tempCreated <= 1

\* C10 witness: a temporary file was created, the archive in it was corrupt,
\* and it is gone.
C10_Witness ==
  /\ pc = "raised"
  /\ exc = "BadZipFile"
  /\ tempCreated = 1
  /\ tempFiles = 0

\* integer ceiling of n / d
CeilDiv(n, d) == (n + d - 1) \div d

\* seconds spent in time.sleep so far
SleptSeconds == nSleep * sleep_seconds

\* C11: when the n-th listRuns answer is the first whose position-0 run is
\* completed, the monitor has left Polling in that cycle: the number of
\* listRuns calls is n then and in every later state, through the log or
\* artifact calls and the end of monitor_build.
C11_PollsUntilCompleted ==
  /\ firstCompletedAt \in 0..max_attempts
  /\ firstCompletedAt # 0 =>
       /\ nListRuns = firstCompletedAt
       /\ status = "completed"
       /\ ~Polling
       /\ ~TimedOut
  /\ (nFetchLogs + nListArtifacts > 0 \/ Succeeded \/ Failed) =>
       (firstCompletedAt # 0 /\ nListRuns = firstCompletedAt)

\* C11 witness: five answers without a completed run, then completed/failure:
\* six polls, the logs asked once for that run, Failed.
C11_Witness ==
  /\ Failed
  /\ firstCompletedAt = 6
  /\ nListRuns = 6
  /\ conclusion = "failure"
  /\ nFetchLogs = 1
  /\ logsRunId = run_id

\* C12 as stated: Succeeded is reached within ceil(n / 10) poll cycles, n the
\* position of the completed+success answer.
C12_AsStated ==
  Succeeded => nListRuns <= CeilDiv(firstCompletedAt, sleep_seconds)

\* C12, amended: the completed+success answer at position n is acted on in
\* poll cycle n exactly, after n - 1 delays of 10 seconds; whenever Succeeded
\* is reached, n poll cycles were used, which is at least ceil(n / 10).
C12_CyclesToSuccess ==
  /\ FirstCompletedSucceeded =>
       /\ firstCompletedAt >= 1
       /\ nListRuns = firstCompletedAt
       /\ nSleep = firstCompletedAt - 1
       /\ SleptSeconds = (firstCompletedAt - 1) * sleep_seconds
       /\ nListRuns >= CeilDiv(firstCompletedAt, sleep_seconds)
  /\ Succeeded => FirstCompletedSucceeded

\* C12 witness: the success answer is the 11th; eleven cycles were used, where
\* ceil(11 / 10) is 2.
C12_Witness ==
  /\ Succeeded
  /\ firstCompletedAt = 11
  /\ nListRuns = 11
  /\ SleptSeconds = 100

\* C15: the attempt counter stays within 0..60 and counts the poll cycles that
\* ended without a terminal transition, one per cycle; the listRuns calls made
\* are attempt (before the call of a cycle, and at the timeout) or
\* attempt + 1 (after it), and never more than 60.
C15_AttemptCounter ==
  /\ attempt \in 0..max_attempts
  /\ nSleep = attempt
  /\ nListRuns <= max_attempts
  /\ nListRuns = attempt + (IF pc = "poll" \/ TimedOut THEN 0 ELSE 1)
  /\ pc = "sleep" =>
       /\ lastKind \in {"ok", "non2xx"}
       /\ runs # <<>> => runs[1].status # "completed"

\* C15 witness: the 60th cycle saw a non-2xx answer and the counter, at 59, is
\* about to take its last step.
C15_Witness ==
  /\ pc = "sleep"
  /\ attempt = max_attempts - 1
  /\ lastKind = "non2xx"
  /\ nListRuns = max_attempts

\* C18 as stated: a timed-out session has slept 59 times, no delay following
\* the 60th poll cycle.
C18_AsStated == TimedOut => nSleep = max_attempts - 1

\* C18, amended: one delay of 10 seconds follows every poll cycle that did not
\* observe a completed run, the 60th included: exactly one delay separates
\* two consecutive listRuns calls, no delay follows a cycle that observed a
\* completed run, and a timed-out session has slept 60 times, 600 seconds.
C18_DelayAfterEveryOpenCycle ==
  /\ pc = "poll" => nSleep = nListRuns
  /\ pc = "sleep" => nSleep = nListRuns - 1
  /\ firstCompletedAt # 0 => nSleep = firstCompletedAt - 1
  /\ TimedOut =>
       /\ nSleep = max_attempts
       /\ SleptSeconds = max_attempts * sleep_seconds

\* C18 witness: the session timed out after 60 delays.
C18_Witness == TimedOut /\ nSleep = max_attempts /\ SleptSeconds = 600

\* C13 as stated: with every network call returning a response, monitor_build
\* ends in exactly one of Succeeded, Failed and TimedOut, after at most 60
\* listRuns calls.
C13_AsStated ==
  exc # "ConnectionError" =>
    /\ pc # "raised"
    /\ nListRuns <= max_attempts
    /\ pc = "done" =>
         Cardinality({x \in {"success", "failed", "timeout"} : exit = x}) = 1

\* C16: in download_apk the GET of archive_download_url is made only after a
\* 200 answer of listArtifacts in which the selected artifact is the first one
\* named 'app-debug'; the temporary file is written and the archive extracted
\* only after a 200 answer of that GET; and True is returned only with a
\* reported file that ends in '.apk' and lies under the working directory.
C16_Pipeline ==
  /\ (nDownloadArtifact > 0 \/ pc = "downloadArtifact") =>
       /\ nListArtifacts = 1
       /\ artKind = "ok"
       /\ apk_artifact \in 1..Len(artifacts)
       /\ artifacts[apk_artifact] = ArtifactName
       /\ \A j \in 1..(apk_artifact - 1) : artifacts[j] # ArtifactName
  /\ (nListArtifacts > 0 /\ (tempCreated > 0 \/ pc = "extract" \/ files # filesBefore)) =>
       /\ nDownloadArtifact = 1
       /\ dlKind = "ok"
  /\ dlResult = "True" =>
       /\ tempCreated = 1
       /\ apk_path # "none"
       /\ EndsWith(apk_path, ".apk")
       /\ apk_path \in files
  /\ (dlResult = "False" /\ tempCreated = 1) => ApkCandidates(files) = {}

\* C16 witness: the second of two artifacts is the one named 'app-debug'; it
\* was downloaded and extracted, and an APK was reported.
C16_Witness ==
  /\ dlResult = "True"
  /\ Len(artifacts) = 2
  /\ apk_artifact = 2
  /\ nDownloadArtifact = 1

\* C17: when the latest run is completed without success and the logs request
\* answers non-2xx, monitor_build ends in Failed returning False, with one
\* logs request, no temporary file, nothing printed from an archive and no
\* further listRuns call.
C17_LogsAbsent ==
  (FirstCompletedFailed /\ nFetchLogs > 0 /\ dlKind = "non2xx") =>
    /\ Failed
    /\ result = "False"
    /\ nFetchLogs = 1
    /\ tempCreated = 0
    /\ tempFiles = 0
    /\ printedLogs = {}
    /\ nListRuns = firstCompletedAt
    /\ exc = "none"

\* C17 witness: the run was cancelled, the logs request answered non-2xx, and
\* monitor_build returned False.
C17_Witness ==
  /\ Failed
  /\ conclusion = "cancelled"
  /\ dlKind = "non2xx"
  /\ nFetchLogs = 1
  /\ tempCreated = 0

\* C20 as stated: an APK path reported by download_apk names a file extracted
\* from the archive downloaded in this call, and an archive without a '.apk'
\* entry makes download_apk return False.
C20_AsStated ==
  /\ dlResult = "True" => apk_path \in ExtractedEntries(archive)
  /\ (dlResult # "none" /\ tempCreated = 1 /\ ApkCandidates(ExtractedEntries(archive)) = {}) =>
       dlResult = "False"

\* the names of an archive's entries
EntrySet(a) == {a.entries[i] : i \in 1..Len(a.entries)}

C19_AsStated == Entered("monitor_build") => pushed

\* the two orders in which run() can enter its steps
StepOrders ==
  { <<"setup_credentials", "create_github_repo", "create_workflow_file",
      "commit_and_push", "monitor_build">>,
    <<"setup_credentials", "init_git_repo", "create_github_repo",
      "create_workflow_file", "commit_and_push", "monitor_build">> }

IsPrefix(p, q) == Len(p) <= Len(q) /\ SubSeq(q, 1, Len(p)) = p

\* C21: the steps run() has entered form a prefix of setup_credentials,
\* (init_git_repo,) create_github_repo, create_workflow_file, commit_and_push,
\* monitor_build; a step that returned failure is the last one entered and
\* run() has ended; the workflow file is written and a commit or push made
\* only after create_github_repo succeeded; and monitor_build is entered only
\* after commit_and_push, with no step having failed.
C21_StepOrder ==
  /\ \E order \in StepOrders : IsPrefix(steps, order)
  /\ failedStep # "none" =>
       /\ pc \in {"returned", "raised"}
       /\ steps # <<>>
       /\ steps[Len(steps)] = failedStep
       /\ nListRuns = 0
  /\ (files \cap WorkflowFiles # {} \/ committed \/ pushed) =>
       /\ Entered("create_github_repo")
       /\ failedStep # "create_github_repo"
       /\ Entered("create_workflow_file")
  /\ (committed \/ pushed) => Entered("commit_and_push")
  /\ (Entered("monitor_build") \/ nListRuns > 0 \/ Polling) =>
       /\ Entered("commit_and_push")
       /\ Entered("monitor_build")
       /\ failedStep = "none"
  /\ Entered("init_git_repo") => (hasGit \/ failedStep = "init_git_repo")

\* C21 witness: init_git_repo ran, create_github_repo failed, and run() ended
\* with no workflow file written, nothing committed and no poll made.
C21_Witness ==
  /\ pc = "returned"
  /\ failedStep = "create_github_repo"
  /\ steps = <<"setup_credentials", "init_git_repo", "create_github_repo">>
  /\ files \cap WorkflowFiles = {}
  /\ ~committed
  /\ nListRuns = 0

====
